---- MODULE Spec2Model ----
(***************************************************************************)
(* ASP sign-in / sign-out tracker (src/src/app/page.tsx).                  *)
(*                                                                         *)
(* The store is the remote row store (tables cadets, sessions,             *)
(* leaderboard_overrides).  Each client is one mounted copy of the ASPApp  *)
(* component (a browser tab or a device) with its own component state.     *)
(* An async handler is cut at its awaits: every store call is one atomic   *)
(* step, and the steps of different clients interleave.  One further       *)
(* actor, the administrator, drives the edit panel and the Remove button   *)
(* of their own page, whose leaderboard display is modelled.  The          *)
(* server-side aggregate behind the leaderboard is not part of the client  *)
(* code and is written from the specification of allTimeTotal.             *)
(*                                                                         *)
(* Instants are seconds counted from a Monday 00:00:00 in the program      *)
(* timezone (America/New_York); no daylight-saving change falls inside the *)
(* modelled horizon, so the Intl conversion is division by the day length. *)
(* A name is a sequence of one-character strings.                          *)
(***************************************************************************)
EXTENDS Integers, Sequences, FiniteSets, TLC

\* ------------------------------------------------------------------ bounds
\* rows the sessions and cadets tables may hold, and the number of actions
\* the administrator takes
MaxSessions == 2
MaxCadets == 2
MaxAdminOps == 3

\* ------------------------------------------------------- program constants
TWO_HOURS_MIN == 120
TWO_HOURS_SEC == TWO_HOURS_MIN * 60
ASP_START_MIN == 19 * 60 + 30
ASP_END_MIN == 21 * 60 + 30
RECENT_HOURS == 36
DefaultCompany == "G1"
ALL_KLASSES == {"1C", "2C", "3C", "4C"}

\* sign_out: string | null -- the absent end timestamp
Null == -1

\* The mounted copies of the component: tabs or devices.
Clients == {1, 2, 3}

\* The instants the wall clock takes: Monday 19:30:25, 20:30:25 and 21:40:00
\* (past the window's end and more than two hours after the first).
Instants == {70225, 73825, 78000}
\* ... and Monday 22:31:40, two hours after any sign-in of that evening
LateInstants == Instants \cup {81100}
\* Monday 19:30:25, the last second of Monday's window, its end, and 21:40:00
EveningInstants == {70225, 77399, 77400, 78000}

\* What the form fields may hold when Sign In is clicked.
NameInputs == {<<>>, <<" ">>, <<"a">>, <<"a", " ">>}
KlassInputs == {"none", "1C"}

\* What the administrator may type into a datetime-local field, in minutes
\* since the epoch: Monday 19:00, Monday 21:30 and Tuesday 00:30.
AdminInputs == {1140, 1290, 1470}
\* What the administrator may type into the override field.
OverrideInputs == {1000}

\* The offsets, in hours, by which a device's local clock may be ahead of
\* the program timezone (Pacific, Eastern, Central European).
DeviceOffsets == {-3, 0, 6}

\* Instants of one week at which the calendar functions are probed: on every
\* day 03:00:00 and the last second before, and the first second of, the
\* minutes 19:30 and 21:30.
ClockInstants ==
  {d * 86400 + tod : d \in 0 .. 6, tod \in {10800, 70199, 70200, 77399, 77400}}

\* Session rows the accounting functions are probed with.  Cadet 1: Monday
\* 19:00-22:00, 19:35-20:05, 18:00-19:00, 20:00-Tuesday 00:30, 20:30-open,
\* Tuesday 20:00-21:00, Wednesday 19:30-21:30, and a void Monday 19:35-20:05.
\* Cadet 2: Monday 19:35-20:05, Wednesday 19:30-21:30, a void Monday
\* 19:00-22:00.
ProbeSessions ==
  {[cadet_id |-> 1, sign_in |-> 68400, sign_out |-> 79200, voided |-> FALSE],
   [cadet_id |-> 1, sign_in |-> 70500, sign_out |-> 72300, voided |-> FALSE],
   [cadet_id |-> 1, sign_in |-> 64800, sign_out |-> 68400, voided |-> FALSE],
   [cadet_id |-> 1, sign_in |-> 72000, sign_out |-> 88200, voided |-> FALSE],
   [cadet_id |-> 1, sign_in |-> 73800, sign_out |-> Null, voided |-> FALSE],
   [cadet_id |-> 1, sign_in |-> 158400, sign_out |-> 162000, voided |-> FALSE],
   [cadet_id |-> 1, sign_in |-> 243000, sign_out |-> 250200, voided |-> FALSE],
   [cadet_id |-> 1, sign_in |-> 70500, sign_out |-> 72300, voided |-> TRUE],
   [cadet_id |-> 2, sign_in |-> 70500, sign_out |-> 72300, voided |-> FALSE],
   [cadet_id |-> 2, sign_in |-> 243000, sign_out |-> 250200, voided |-> FALSE],
   [cadet_id |-> 2, sign_in |-> 68400, sign_out |-> 79200, voided |-> TRUE]}

\* The instants at which the accounting functions are probed: Monday 21:00
\* and Wednesday 20:00.
BoardInstants == {75600, 244800}

VARIABLES
  now,            \* the wall clock (Date.now()), in seconds
  cadets,         \* table cadets: sequence of rows, the index is the id
  sessions,       \* table sessions: sequence of rows, the index is the id
  overrides,      \* table leaderboard_overrides: cadet id -> minutes or Null
  pc,             \* per client: where its handleSignIn stands
  cad,            \* per client: handleSignIn's local Cadet c
  nowIso,         \* per client: handleSignIn's local nowIso
  activeSession,  \* per client: the activeSession state (and its cached copy)
  statusMsg,      \* per client: the statusMsg state
  editCadet,      \* administrator: editCadet (a cadet id, 0 when null)
  editDraft,      \* administrator: editDraft, session id -> local inputs
  editOverride,   \* administrator: editOverride ("" is Null)
  nAdminOps,      \* number of administrator actions taken so far
  leaderboard,    \* administrator's page: the leaderboard state (rows)
  overridesMap,   \* administrator's page: overridesMap, cadet id -> minutes
  ovPending,      \* administrator's page: the overrides effect is scheduled
  nextWindow,     \* administrator's page: the memoized next window (0: none)
  adminMode       \* per client: the adminMode state

vars == <<now, cadets, sessions, overrides, pc, cad, nowIso, activeSession,
          statusMsg, editCadet, editDraft, editOverride, nAdminOps,
          leaderboard, overridesMap, ovPending, nextWindow, adminMode>>

storeVars == <<cadets, sessions, overrides>>
adminVars == <<editCadet, editDraft, editOverride, nAdminOps>>
clientVars == <<pc, cad, nowIso, activeSession, statusMsg, adminMode>>
boardVars == <<leaderboard, overridesMap, ovPending, nextWindow>>

\* ----------------------------------------------------------------- helpers
Max(a, b) == IF a >= b THEN a ELSE b
Min(a, b) == IF a <= b THEN a ELSE b

RECURSIVE SumOver(_, _)
SumOver(S, f) ==
  IF S = {} THEN 0
  ELSE LET x == CHOOSE y \in S : TRUE IN f[x] + SumOver(S \ {x}, f)

\* \s of the regular expression
IsSpace(ch) == ch \in {" ", "\t"}

RECURSIVE TrimLeft(_)
TrimLeft(s) == IF s # <<>> /\ IsSpace(Head(s)) THEN TrimLeft(Tail(s)) ELSE s

RECURSIVE TrimRight(_)
TrimRight(s) ==
  IF s # <<>> /\ IsSpace(s[Len(s)]) THEN TrimRight(SubSeq(s, 1, Len(s) - 1)) ELSE s

\* replace(/\s+/g, " ")
RECURSIVE CollapseSpaces(_)
CollapseSpaces(s) ==
  IF s = <<>> THEN <<>>
  ELSE IF IsSpace(Head(s))
       THEN <<" ">> \o CollapseSpaces(TrimLeft(s))
       ELSE <<Head(s)>> \o CollapseSpaces(Tail(s))

normalizeName(raw) == CollapseSpaces(TrimRight(TrimLeft(raw)))

\* ------------------------------------------------------------ ET helpers
DaySec == 24 * 60 * 60
WeekdayShort == <<"mon", "tue", "wed", "thu", "fri", "sat", "sun">>

etDateKey(t) == t \div DaySec
minutesOfDayET(t) == (t % DaySec) \div 60
weekdayET(t) == WeekdayShort[((t \div DaySec) % 7) + 1]

\* isAspOpen with the end boundary included (<= for <)
isAspOpenEndInclusive(t) ==
  LET weekday == weekdayET(t)
      minutes == minutesOfDayET(t)
      start == 19 * 60 + 30
      end == 21 * 60 + 30
  IN (weekday = "mon" \/ weekday = "wed") /\ minutes >= start /\ minutes <= end

isAspOpen(t) ==
  LET weekday == weekdayET(t)
      minutes == minutesOfDayET(t)
      start == 19 * 60 + 30
      end == 21 * 60 + 30
  IN (weekday = "mon" \/ weekday = "wed") /\ minutes >= start /\ minutes < end

overlapMinutesET(aStartMin, aEndMin, bStartMin, bEndMin) ==
  LET a1 == Max(aStartMin, bStartMin)
      b1 == Min(aEndMin, bEndMin)
  IN Max(0, b1 - a1)

\* ids: a set of session ids (the rows a query returned), at instant t
minutesTonightET(ids, t) ==
  LET tonightKey == etDateKey(t)
      seg == [i \in ids |->
               LET sin == sessions[i].sign_in
                   sout == IF sessions[i].sign_out = Null THEN t
                           ELSE sessions[i].sign_out
               IN IF etDateKey(sin) # tonightKey THEN 0
                  ELSE overlapMinutesET(minutesOfDayET(sin), minutesOfDayET(sout),
                                        ASP_START_MIN, ASP_END_MIN)]
  IN Min(SumOver(ids, seg), TWO_HOURS_MIN)

\* ------------------------------------------------------------------ state
NoSession == [id |-> 0, cadet_id |-> 0, sign_in |-> 0, sign_out |-> Null]
NoCadet == [id |-> 0, name |-> <<>>, klass |-> "none"]

SessionIds == 1 .. Len(sessions)
CadetIds == 1 .. Len(cadets)

Init ==
  /\ now = 70225
  /\ cadets = <<>>
  /\ sessions = <<>>
  /\ overrides = [i \in 1 .. MaxCadets |-> Null]
  /\ pc = [c \in Clients |-> "idle"]
  /\ cad = [c \in Clients |-> NoCadet]
  /\ nowIso = [c \in Clients |-> 0]
  /\ activeSession = [c \in Clients |-> NoSession]
  /\ statusMsg = [c \in Clients |-> "none"]
  /\ editCadet = 0
  /\ editDraft = << >>
  /\ editOverride = Null
  /\ nAdminOps = 0
  /\ leaderboard = << >>
  /\ overridesMap = [i \in 1 .. MaxCadets |-> Null]
  /\ ovPending = FALSE
  /\ nextWindow = 0
  /\ adminMode = [c \in Clients |-> FALSE]

\* The calendar functions on any device: the page is loaded at a probed
\* instant.
InitClock ==
  /\ now \in ClockInstants
  /\ cadets = <<>>
  /\ sessions = <<>>
  /\ overrides = [i \in 1 .. MaxCadets |-> Null]
  /\ pc = [c \in Clients |-> "idle"]
  /\ cad = [c \in Clients |-> NoCadet]
  /\ nowIso = [c \in Clients |-> 0]
  /\ activeSession = [c \in Clients |-> NoSession]
  /\ statusMsg = [c \in Clients |-> "none"]
  /\ editCadet = 0
  /\ editDraft = << >>
  /\ editOverride = Null
  /\ nAdminOps = 0
  /\ leaderboard = << >>
  /\ overridesMap = [i \in 1 .. MaxCadets |-> Null]
  /\ ovPending = FALSE
  /\ nextWindow = 0
  /\ adminMode = [c \in Clients |-> FALSE]

\* The accounting functions on a store of two participants holding probed
\* session rows and overrides.
InitBoard ==
  /\ now \in BoardInstants
  /\ cadets = <<[name |-> <<"a">>, klass |-> "1C", company |-> DefaultCompany],
                [name |-> <<"b">>, klass |-> "2C", company |-> DefaultCompany]>>
  /\ sessions \in UNION {[1 .. n -> ProbeSessions] : n \in 0 .. MaxSessions}
  /\ overrides \in {[i \in 1 .. MaxCadets |->
                       IF i = 1 THEN a ELSE IF i = 2 THEN b ELSE Null] :
                      a \in {Null, 480}, b \in {Null, 30}}
  /\ pc = [c \in Clients |-> "idle"]
  /\ cad = [c \in Clients |-> NoCadet]
  /\ nowIso = [c \in Clients |-> 0]
  /\ activeSession = [c \in Clients |-> NoSession]
  /\ statusMsg = [c \in Clients |-> "none"]
  /\ editCadet = 0
  /\ editDraft = << >>
  /\ editOverride = Null
  /\ nAdminOps = 0
  /\ leaderboard = << >>
  /\ overridesMap = [i \in 1 .. MaxCadets |-> Null]
  /\ ovPending = FALSE
  /\ nextWindow = 0
  /\ adminMode = [c \in Clients |-> FALSE]

\* The leaderboard's tabs on a probed store of two participants who are in
\* one cohort or in two.
InitCohort ==
  /\ now \in BoardInstants
  /\ \E kl \in {"1C", "2C"} :
       cadets = <<[name |-> <<"a">>, klass |-> "1C", company |-> DefaultCompany],
                  [name |-> <<"b">>, klass |-> kl, company |-> DefaultCompany]>>
  /\ sessions \in UNION {[1 .. n -> ProbeSessions] : n \in 0 .. MaxSessions}
  /\ overrides \in {[i \in 1 .. MaxCadets |->
                       IF i = 1 THEN a ELSE IF i = 2 THEN b ELSE Null] :
                      a \in {Null, 480}, b \in {Null, 30}}
  /\ pc = [c \in Clients |-> "idle"]
  /\ cad = [c \in Clients |-> NoCadet]
  /\ nowIso = [c \in Clients |-> 0]
  /\ activeSession = [c \in Clients |-> NoSession]
  /\ statusMsg = [c \in Clients |-> "none"]
  /\ editCadet = 0
  /\ editDraft = << >>
  /\ editOverride = Null
  /\ nAdminOps = 0
  /\ leaderboard = << >>
  /\ overridesMap = [i \in 1 .. MaxCadets |-> Null]
  /\ ovPending = FALSE
  /\ nextWindow = 0
  /\ adminMode = [c \in Clients |-> FALSE]

\* The clock moves on to a later instant.
Tick ==
  /\ \E t \in Instants : t > now /\ now' = t
  /\ UNCHANGED <<storeVars, clientVars, adminVars, boardVars>>

\* The clock moves on to the last second of the window, to its end and past
\* it.
TickEvening ==
  /\ \E t \in EveningInstants : t > now /\ now' = t
  /\ UNCHANGED <<storeVars, clientVars, adminVars, boardVars>>

\* The clock moves on, as far as two hours after the last sign-in.
TickLate ==
  /\ \E t \in LateInstants : t > now /\ now' = t
  /\ UNCHANGED <<storeVars, clientVars, adminVars, boardVars>>

\* ------------------------------------------------------- store queries
Lower(ch) == IF ch = "A" THEN "a" ELSE IF ch = "B" THEN "b" ELSE ch

\* Postgres ILIKE: case-insensitive, _ matches one character, % any run
RECURSIVE ilike(_, _)
ilike(s, pat) ==
  IF pat = <<>> THEN s = <<>>
  ELSE IF Head(pat) = "%"
       THEN ilike(s, Tail(pat)) \/ (s # <<>> /\ ilike(Tail(s), pat))
       ELSE /\ s # <<>>
            /\ (Head(pat) = "_" \/ Lower(Head(pat)) = Lower(Head(s)))
            /\ ilike(Tail(s), Tail(pat))

\* Step 1 of handleSignIn: the ids the two lookups may resolve to (0: none).
\* maybeSingle() yields the row only when exactly one matches; limit(1)
\* without an order yields any matching row.
ResolveCadet(canonicalName, kl, company) ==
  LET exact == {i \in CadetIds : /\ cadets[i].name = canonicalName
                                 /\ cadets[i].klass = kl
                                 /\ cadets[i].company = company}
      ci == {i \in CadetIds : /\ ilike(cadets[i].name, canonicalName)
                              /\ cadets[i].klass = kl
                              /\ cadets[i].company = company}
  IN IF Cardinality(exact) = 1 THEN exact
     ELSE IF ci # {} THEN ci ELSE {0}

\* .eq('cadet_id', id).is('sign_out', null)
OpenSessionsOf(id) ==
  {i \in SessionIds : sessions[i].cadet_id = id /\ sessions[i].sign_out = Null}

\* RecentSessionsOf with the filter on voided left out
RecentSessionsOfWithVoided(id, since) ==
  {i \in SessionIds : /\ sessions[i].cadet_id = id
                      /\ sessions[i].sign_in >= since}

\* .eq('cadet_id', id).eq('voided', false).gte('sign_in', since)
RecentSessionsOf(id, since) ==
  {i \in SessionIds : /\ sessions[i].cadet_id = id
                      /\ sessions[i].voided = FALSE
                      /\ sessions[i].sign_in >= since}

AsActive(i) == [id |-> i, cadet_id |-> sessions[i].cadet_id,
                sign_in |-> sessions[i].sign_in, sign_out |-> sessions[i].sign_out]

\* ------------------------------------------------------------ handleSignIn
\* handleSignInStart with the window check left out.
handleSignInStartAnyTime(c, nm, kl) ==
  /\ pc[c] = "idle"
  /\ activeSession[c].id = 0
  /\ IF nm = <<>> \/ kl = "none"
     THEN /\ statusMsg' = [statusMsg EXCEPT ![c] = "validation"]
          /\ UNCHANGED <<pc, cad>>
     ELSE LET canonicalName == normalizeName(nm) IN
          /\ \E rid \in ResolveCadet(canonicalName, kl, DefaultCompany) :
               cad' = [cad EXCEPT ![c] =
                         [id |-> rid, name |-> canonicalName, klass |-> kl]]
          /\ pc' = [pc EXCEPT ![c] = "upsert"]
          /\ UNCHANGED statusMsg
  /\ UNCHANGED <<now, storeVars, nowIso, activeSession, adminVars, boardVars, adminMode>>

\* The click: validation, window check, canonical name, cadet lookup.
handleSignInStart(c, nm, kl) ==
  /\ pc[c] = "idle"
  /\ activeSession[c].id = 0
  /\ IF nm = <<>> \/ kl = "none"
     THEN /\ statusMsg' = [statusMsg EXCEPT ![c] = "validation"]
          /\ UNCHANGED <<pc, cad>>
     ELSE IF ~isAspOpen(now)
          THEN /\ statusMsg' = [statusMsg EXCEPT ![c] = "closed"]
               /\ UNCHANGED <<pc, cad>>
          ELSE LET canonicalName == normalizeName(nm) IN
               /\ \E rid \in ResolveCadet(canonicalName, kl, DefaultCompany) :
                    cad' = [cad EXCEPT ![c] =
                              [id |-> rid, name |-> canonicalName, klass |-> kl]]
               /\ pc' = [pc EXCEPT ![c] = "upsert"]
               /\ UNCHANGED statusMsg
  /\ UNCHANGED <<now, storeVars, nowIso, activeSession, adminVars, boardVars, adminMode>>

\* 2) upsert on id: a resolved id updates the row, a fresh id inserts one
handleSignInUpsert(c) ==
  /\ pc[c] = "upsert"
  /\ LET row == [name |-> cad[c].name, klass |-> cad[c].klass,
                 company |-> DefaultCompany] IN
     IF cad[c].id # 0
     THEN /\ cadets' = [cadets EXCEPT ![cad[c].id] = row]
          /\ UNCHANGED cad
     ELSE /\ Len(cadets) < MaxCadets
          /\ cadets' = Append(cadets, row)
          /\ cad' = [cad EXCEPT ![c].id = Len(cadets) + 1]
  /\ pc' = [pc EXCEPT ![c] = "open"]
  /\ UNCHANGED <<now, sessions, overrides, nowIso, activeSession, statusMsg,
                 adminVars, boardVars, adminMode>>

\* 3) an already open session is resumed; maybeSingle() gives an error, and
\*    no data, when more than one row matches
handleSignInOpen(c) ==
  /\ pc[c] = "open"
  /\ LET open == OpenSessionsOf(cad[c].id) IN
     IF Cardinality(open) = 1
     THEN LET existing == CHOOSE i \in open : TRUE IN
          /\ activeSession' = [activeSession EXCEPT ![c] = AsActive(existing)]
          /\ statusMsg' = [statusMsg EXCEPT ![c] = "resumed"]
          /\ pc' = [pc EXCEPT ![c] = "idle"]
          /\ cad' = [cad EXCEPT ![c] = NoCadet]
     ELSE /\ pc' = [pc EXCEPT ![c] = "recent"]
          /\ UNCHANGED <<activeSession, statusMsg, cad>>
  /\ UNCHANGED <<now, storeVars, nowIso, adminVars, boardVars, adminMode>>

\* handleSignInRecent blocking only above the cap (> for >=).
handleSignInRecentAboveCap(c) ==
  /\ pc[c] = "recent"
  /\ LET since == now - RECENT_HOURS * 60 * 60
         mins == minutesTonightET(RecentSessionsOf(cad[c].id, since), now)
     IN IF mins > TWO_HOURS_MIN
        THEN /\ statusMsg' = [statusMsg EXCEPT ![c] = "cap"]
             /\ pc' = [pc EXCEPT ![c] = "idle"]
             /\ cad' = [cad EXCEPT ![c] = NoCadet]
             /\ UNCHANGED nowIso
        ELSE /\ nowIso' = [nowIso EXCEPT ![c] = now]
             /\ pc' = [pc EXCEPT ![c] = "insert"]
             /\ UNCHANGED <<statusMsg, cad>>
  /\ UNCHANGED <<now, storeVars, activeSession, adminVars, boardVars, adminMode>>

\* 4) the nightly guard, then nowIso is taken for the insert
handleSignInRecent(c) ==
  /\ pc[c] = "recent"
  /\ LET since == now - RECENT_HOURS * 60 * 60
         mins == minutesTonightET(RecentSessionsOf(cad[c].id, since), now)
     IN IF mins >= TWO_HOURS_MIN
        THEN /\ statusMsg' = [statusMsg EXCEPT ![c] = "cap"]
             /\ pc' = [pc EXCEPT ![c] = "idle"]
             /\ cad' = [cad EXCEPT ![c] = NoCadet]
             /\ UNCHANGED nowIso
        ELSE /\ nowIso' = [nowIso EXCEPT ![c] = now]
             /\ pc' = [pc EXCEPT ![c] = "insert"]
             /\ UNCHANGED <<statusMsg, cad>>
  /\ UNCHANGED <<now, storeVars, activeSession, adminVars, boardVars, adminMode>>

\* handleSignInInsert as an upsert that replaces the newest stored session
handleSignInInsertReplacing(c) ==
  /\ pc[c] = "insert"
  /\ Len(sessions) < MaxSessions
  /\ LET row == [cadet_id |-> cad[c].id, sign_in |-> nowIso[c],
                 sign_out |-> Null, voided |-> FALSE]
         id == Max(1, Len(sessions))
     IN /\ sessions' = IF sessions = << >> THEN <<row>>
                       ELSE [sessions EXCEPT ![Len(sessions)] = row]
        /\ activeSession' = [activeSession EXCEPT ![c] =
                               [id |-> id, cadet_id |-> cad[c].id,
                                sign_in |-> nowIso[c], sign_out |-> Null]]
  /\ statusMsg' = [statusMsg EXCEPT ![c] = "signed_in"]
  /\ pc' = [pc EXCEPT ![c] = "idle"]
  /\ cad' = [cad EXCEPT ![c] = NoCadet]
  /\ nowIso' = [nowIso EXCEPT ![c] = 0]
  /\ UNCHANGED <<now, cadets, overrides, adminVars, boardVars, adminMode>>

\* 5) the new session row; voided takes the column default
handleSignInInsert(c) ==
  /\ pc[c] = "insert"
  /\ Len(sessions) < MaxSessions
  /\ sessions' = Append(sessions, [cadet_id |-> cad[c].id, sign_in |-> nowIso[c],
                                   sign_out |-> Null, voided |-> FALSE])
  /\ activeSession' = [activeSession EXCEPT ![c] =
                         [id |-> Len(sessions) + 1, cadet_id |-> cad[c].id,
                          sign_in |-> nowIso[c], sign_out |-> Null]]
  /\ statusMsg' = [statusMsg EXCEPT ![c] = "signed_in"]
  /\ pc' = [pc EXCEPT ![c] = "idle"]
  /\ cad' = [cad EXCEPT ![c] = NoCadet]
  /\ nowIso' = [nowIso EXCEPT ![c] = 0]
  /\ UNCHANGED <<now, cadets, overrides, adminVars, boardVars, adminMode>>

\* ----------------------------------------------------------- handleSignOut
\* With no activeSession the handler returns at once and changes nothing;
\* that silent return is a stuttering step.
handleSignOut(c) ==
  /\ activeSession[c].id # 0
  /\ sessions' = [sessions EXCEPT ![activeSession[c].id].sign_out = now]
  /\ activeSession' = [activeSession EXCEPT ![c] = NoSession]
  /\ statusMsg' = [statusMsg EXCEPT ![c] = "signed_out"]
  /\ UNCHANGED <<now, cadets, overrides, pc, cad, nowIso, adminVars, boardVars, adminMode>>

\* ------------------------------------------------ client auto sign-out at 2h
\* The timeout armed by the effect on activeSession; it runs no earlier than
\* its delay, and as late as the client's event loop lets it.
autoExpire(c) ==
  /\ activeSession[c].id # 0
  /\ activeSession[c].sign_out = Null
  /\ LET startMs == activeSession[c].sign_in
         end2h == startMs + TWO_HOURS_SEC
     IN /\ now >= end2h
        /\ sessions' = [sessions EXCEPT ![activeSession[c].id].sign_out = end2h]
  /\ activeSession' = [activeSession EXCEPT ![c] = NoSession]
  /\ statusMsg' = [statusMsg EXCEPT ![c] = "auto"]
  /\ UNCHANGED <<now, cadets, overrides, pc, cad, nowIso, adminVars, boardVars, adminMode>>

\* currentElapsedSec with the Math.min left out
currentElapsedSecUnclamped(c) ==
  IF activeSession[c].id = 0 THEN 0
  ELSE LET start == activeSession[c].sign_in
           end == IF activeSession[c].sign_out # Null THEN activeSession[c].sign_out
                  ELSE now
       IN Max(0, end - start)

\* The live counter; nowTs is refreshed every second while a session is held
\* and is taken to be the clock.
currentElapsedSec(c) ==
  IF activeSession[c].id = 0 THEN 0
  ELSE LET start == activeSession[c].sign_in
           end == IF activeSession[c].sign_out # Null THEN activeSession[c].sign_out
                  ELSE now
           sec == Max(0, end - start)
       IN Min(sec, TWO_HOURS_SEC)

\* ------------------------------------------------------------ leaderboard
\* The window-overlap minutes of one session: its interval against the open
\* window of its own start date, in whole clock minutes.
windowOverlap(sin, sout) ==
  LET day == etDateKey(sin)
      ws == day * 24 * 60 + ASP_START_MIN
      we == day * 24 * 60 + ASP_END_MIN
  IN IF weekdayET(sin) \in {"mon", "wed"}
     THEN Max(0, Min(sout \div 60, we) - Max(sin \div 60, ws))
     ELSE 0

\* allTimeTotal of participant p over the table sess, read at instant t: the
\* sum over the non-void sessions, with no nightly cap.
allTimeTotal(sess, p, t) ==
  LET ids == {i \in 1 .. Len(sess) : sess[i].cadet_id = p /\ sess[i].voided = FALSE}
      seg == [i \in ids |->
               windowOverlap(sess[i].sign_in,
                             IF sess[i].sign_out = Null THEN t ELSE sess[i].sign_out)]
  IN SumOver(ids, seg)

\* rpc('asp_leaderboard_all_time_v2'): one row per participant appearing in
\* the non-void session data; the order of the rows is the server's.
asp_leaderboard_all_time_v2(sess, cads, t) ==
  LET ps == {q \in 1 .. Len(cads) :
               \E i \in 1 .. Len(sess) : sess[i].cadet_id = q /\ sess[i].voided = FALSE}
      n == Cardinality(ps)
      orders == {g \in [1 .. n -> ps] : \A a, b \in 1 .. n : a # b => g[a] # g[b]}
  IN {[k \in 1 .. n |-> [cadet_id |-> g[k], name |-> cads[g[k]].name,
                         klass |-> cads[g[k]].klass,
                         total_min |-> allTimeTotal(sess, g[k], t)]] : g \in orders}

\* fetchLeaderboard with the totals of the local fallback: the raw duration
\* of every session of the participant
fetchLeaderboardRaw(sess, cads, t) ==
  {[k \in DOMAIN rows |->
      LET ids == {i \in 1 .. Len(sess) : sess[i].cadet_id = rows[k].cadet_id}
          raw == [i \in ids |->
                   Max(0, ((IF sess[i].sign_out = Null THEN t ELSE sess[i].sign_out)
                           - sess[i].sign_in) \div 60)]
      IN [cadetId |-> rows[k].cadet_id, name |-> rows[k].name,
          klass |-> rows[k].klass, totalMin |-> SumOver(ids, raw)]] :
     rows \in asp_leaderboard_all_time_v2(sess, cads, t)}

\* fetchLeaderboard: the values setLeaderboard may receive
fetchLeaderboard(sess, cads, t) ==
  {[k \in DOMAIN rows |-> [cadetId |-> rows[k].cadet_id, name |-> rows[k].name,
                           klass |-> rows[k].klass, totalMin |-> rows[k].total_min]] :
     rows \in asp_leaderboard_all_time_v2(sess, cads, t)}

\* rows.sort((a,b) => a.total - b.total): ascending instead of descending
sortRowsAscending(seq) ==
  LET RECURSIVE srt(_)
      srt(q) ==
        IF q = << >> THEN << >>
        ELSE LET sorted == srt(SubSeq(q, 1, Len(q) - 1))
                 x == q[Len(q)]
                 k == Cardinality({j \in DOMAIN sorted : sorted[j].total <= x.total})
             IN SubSeq(sorted, 1, k) \o <<x>> \o SubSeq(sorted, k + 1, Len(sorted))
  IN srt(seq)

\* rows.sort((a,b) => b.total - a.total); Array.prototype.sort is stable
sortRows(seq) ==
  LET RECURSIVE srt(_)
      srt(q) ==
        IF q = << >> THEN << >>
        ELSE LET sorted == srt(SubSeq(q, 1, Len(q) - 1))
                 x == q[Len(q)]
                 k == Cardinality({j \in DOMAIN sorted : sorted[j].total >= x.total})
             IN SubSeq(sorted, 1, k) \o <<x>> \o SubSeq(sorted, k + 1, Len(sorted))
  IN srt(seq)

\* rows computing a cohort's tab apart from the full list: filtered and
\* mapped, in the order of the fetch
rowsCohortUnsorted(tab) ==
  LET InTab(r) == tab = "all" \/ r.klass = tab
      filtered == SelectSeq(leaderboard, InTab)
      mapped == [k \in DOMAIN filtered |->
                   LET r == filtered[k]
                       override == overridesMap[r.cadetId]
                   IN [cadetId |-> r.cadetId, name |-> r.name, klass |-> r.klass,
                       totalMin |-> r.totalMin,
                       total |-> IF override # Null THEN override ELSE r.totalMin]]
  IN IF tab = "all" THEN sortRows(mapped) ELSE mapped

\* the rows of one tab of the leaderboard card
rows(tab) ==
  LET InTab(r) == tab = "all" \/ r.klass = tab
      filtered == SelectSeq(leaderboard, InTab)
      mapped == [k \in DOMAIN filtered |->
                   LET r == filtered[k]
                       override == overridesMap[r.cadetId]
                   IN [cadetId |-> r.cadetId, name |-> r.name, klass |-> r.klass,
                       totalMin |-> r.totalMin,
                       total |-> IF override # Null THEN override ELSE r.totalMin]]
  IN sortRows(mapped)

\* Math.ceil for Math.floor
pmiDaysRoundedUp(total) == (total + 239) \div 240

\* the PMI Days cell: Math.floor(r.total/240)
pmiDays(total) == total \div 240

\* the cadet ids of the rows the administrator's leaderboard holds
RowIds == {leaderboard[k].cadetId : k \in DOMAIN leaderboard}

\* nextWindow: the memo computed when the page is rendered first, on a device
\* whose local clock reads the program timezone's plus off hours
nextWindowAt(t, off) ==
  LET local == t + off * 3600
      today == local \div DaySec
      candidates == {d \in today .. today + 7 :
                       WeekdayShort[(d % 7) + 1] \in {"mon", "wed"}}
      at(d) == d * DaySec + (19 * 60 + 30) * 60 - off * 3600
      upcoming == {d \in candidates : at(d) > t}
      first(S) == CHOOSE d \in S : \A e \in S : d <= e
  IN IF upcoming # {} THEN at(first(upcoming)) ELSE at(first(candidates))

\* The administrator's page is loaded (or reloaded): component state starts
\* afresh, the memo is computed, the first fetchLeaderboard answers and the
\* overrides effect is scheduled.
pageLoad(off) ==
  /\ nextWindow' = nextWindowAt(now, off)
  /\ leaderboard' \in fetchLeaderboard(sessions, cadets, now)
  /\ overridesMap' = [i \in 1 .. MaxCadets |-> Null]
  /\ ovPending' = TRUE
  /\ editCadet' = 0
  /\ editDraft' = << >>
  /\ editOverride' = Null
  /\ UNCHANGED <<now, storeVars, clientVars, nAdminOps>>

\* The effect on [leaderboard.length]: reads the overrides table into
\* overridesMap.
overridesEffect ==
  /\ ovPending
  /\ overridesMap' = overrides
  /\ ovPending' = FALSE
  /\ UNCHANGED <<now, storeVars, clientVars, adminVars, leaderboard, nextWindow>>

\* ------------------------------------------------------ administrator
\* removeCadet deleting the rows instead of voiding them
removeCadetDeleting(p) ==
  /\ p \in RowIds
  /\ nAdminOps < MaxAdminOps /\ nAdminOps' = nAdminOps + 1
  /\ LET Kept(s) == s.cadet_id # p \/ s.voided
     IN sessions' = SelectSeq(sessions, Kept)
  /\ leaderboard' \in fetchLeaderboard(sessions', cadets, now)
  /\ ovPending' = (ovPending \/ Len(leaderboard') # Len(leaderboard))
  /\ UNCHANGED <<now, cadets, overrides, clientVars, editCadet, editDraft, editOverride,
                 overridesMap, nextWindow>>

\* removeCadet without the filter on cadet_id: every session is voided.
removeCadetEveryone(p) ==
  /\ p \in RowIds
  /\ nAdminOps < MaxAdminOps /\ nAdminOps' = nAdminOps + 1
  /\ sessions' = [i \in SessionIds |-> [sessions[i] EXCEPT !.voided = TRUE]]
  /\ leaderboard' \in fetchLeaderboard(sessions', cadets, now)
  /\ ovPending' = (ovPending \/ Len(leaderboard') # Len(leaderboard))
  /\ UNCHANGED <<now, cadets, overrides, clientVars, editCadet, editDraft, editOverride,
                 overridesMap, nextWindow>>

\* The Remove button: voids the cadet's sessions that are not yet void.
removeCadet(p) ==
  /\ p \in RowIds
  /\ nAdminOps < MaxAdminOps /\ nAdminOps' = nAdminOps + 1
  /\ sessions' = [i \in SessionIds |->
                    IF sessions[i].cadet_id = p /\ sessions[i].voided = FALSE
                    THEN [sessions[i] EXCEPT !.voided = TRUE]
                    ELSE sessions[i]]
  /\ leaderboard' \in fetchLeaderboard(sessions', cadets, now)
  /\ ovPending' = (ovPending \/ Len(leaderboard') # Len(leaderboard))
  /\ UNCHANGED <<now, cadets, overrides, clientVars, editCadet, editDraft, editOverride,
                 overridesMap, nextWindow>>

\* fmt of the edit panel: "YYYY-MM-DDTHH:MM" in the device's zone (here the
\* program's), as minutes since the epoch; the seconds are dropped.
fmtLocalInput(t) == t \div 60
\* new Date(v).toISOString() of such an input
localInputToIso(v) == v * 60

\* The Edit button: loads the cadet's sessions and override into the panel.
openEditForLeaderboardRow(p) ==
  /\ p \in RowIds
  /\ nAdminOps < MaxAdminOps /\ nAdminOps' = nAdminOps + 1
  /\ editCadet' = p
  /\ editDraft' = [i \in {j \in SessionIds : sessions[j].cadet_id = p} |->
                     [sign_in |-> fmtLocalInput(sessions[i].sign_in),
                      sign_out |-> IF sessions[i].sign_out = Null THEN Null
                                   ELSE fmtLocalInput(sessions[i].sign_out)]]
  /\ editOverride' = overrides[p]
  /\ UNCHANGED <<now, storeVars, clientVars, boardVars>>

\* Typing into a Sign In or Sign Out field of the panel.
typeSignIn(i, v) ==
  /\ editCadet # 0 /\ i \in DOMAIN editDraft /\ nAdminOps < MaxAdminOps
  /\ editDraft[i].sign_in # v
  /\ editDraft' = [editDraft EXCEPT ![i].sign_in = v]
  /\ nAdminOps' = nAdminOps + 1
  /\ UNCHANGED <<now, storeVars, clientVars, editCadet, editOverride, boardVars>>

typeSignOut(i, v) ==
  /\ editCadet # 0 /\ i \in DOMAIN editDraft /\ nAdminOps < MaxAdminOps
  /\ editDraft[i].sign_out # v
  /\ editDraft' = [editDraft EXCEPT ![i].sign_out = v]
  /\ nAdminOps' = nAdminOps + 1
  /\ UNCHANGED <<now, storeVars, clientVars, editCadet, editOverride, boardVars>>

\* Typing into the manual total override field.
typeOverride(v) ==
  /\ editCadet # 0 /\ nAdminOps < MaxAdminOps
  /\ editOverride # v
  /\ editOverride' = v
  /\ nAdminOps' = nAdminOps + 1
  /\ UNCHANGED <<now, storeVars, clientVars, editCadet, editDraft, boardVars>>

saveEdits ==
  /\ editCadet # 0
  /\ nAdminOps < MaxAdminOps /\ nAdminOps' = nAdminOps + 1
  /\ sessions' = [i \in SessionIds |->
                    IF i \in DOMAIN editDraft
                    THEN [sessions[i] EXCEPT
                            !.sign_in = localInputToIso(editDraft[i].sign_in),
                            !.sign_out = IF editDraft[i].sign_out = Null THEN Null
                                         ELSE localInputToIso(editDraft[i].sign_out)]
                    ELSE sessions[i]]
  /\ overrides' = [overrides EXCEPT ![editCadet] =
                     IF editOverride # Null THEN Max(0, editOverride) ELSE Null]
  /\ editCadet' = 0
  /\ editDraft' = << >>
  /\ editOverride' = Null
  /\ leaderboard' \in fetchLeaderboard(sessions', cadets, now)
  /\ ovPending' = (ovPending \/ Len(leaderboard') # Len(leaderboard))
  /\ UNCHANGED <<now, cadets, clientVars, overridesMap, nextWindow>>

cancelEdits ==
  /\ editCadet # 0
  /\ nAdminOps < MaxAdminOps /\ nAdminOps' = nAdminOps + 1
  /\ editCadet' = 0
  /\ editDraft' = << >>
  /\ editOverride' = Null
  /\ UNCHANGED <<now, storeVars, clientVars, boardVars>>

\* ---------------------------------------------------- store failures
\* 2) the upsert answers with an error: "Cadet save failed", return
handleSignInUpsertFails(c) ==
  /\ pc[c] = "upsert"
  /\ statusMsg' = [statusMsg EXCEPT ![c] = "cadet_save_failed"]
  /\ pc' = [pc EXCEPT ![c] = "idle"]
  /\ cad' = [cad EXCEPT ![c] = NoCadet]
  /\ UNCHANGED <<now, storeVars, nowIso, activeSession, adminVars, boardVars, adminMode>>

\* 3) the open-session lookup answers with an error: !open.error is false,
\*    the resume is skipped and the handler goes on
handleSignInOpenFails(c) ==
  /\ pc[c] = "open"
  /\ pc' = [pc EXCEPT ![c] = "recent"]
  /\ UNCHANGED <<now, storeVars, cad, nowIso, activeSession, statusMsg,
                 adminVars, boardVars, adminMode>>

\* 4) the query for the recent sessions answers with an error: !recent.error
\*    is false, the guard is skipped and the handler goes on to the insert
handleSignInRecentFails(c) ==
  /\ pc[c] = "recent"
  /\ nowIso' = [nowIso EXCEPT ![c] = now]
  /\ pc' = [pc EXCEPT ![c] = "insert"]
  /\ UNCHANGED <<now, storeVars, cad, activeSession, statusMsg, adminVars, boardVars, adminMode>>

\* 5) the insert answers with an error: "Sign-in failed", return
handleSignInInsertFails(c) ==
  /\ pc[c] = "insert"
  /\ statusMsg' = [statusMsg EXCEPT ![c] = "sign_in_failed"]
  /\ pc' = [pc EXCEPT ![c] = "idle"]
  /\ cad' = [cad EXCEPT ![c] = NoCadet]
  /\ nowIso' = [nowIso EXCEPT ![c] = 0]
  /\ UNCHANGED <<now, storeVars, activeSession, adminVars, boardVars, adminMode>>

\* handleSignOut when the update answers with an error: "Sign-out failed",
\* return; the client keeps its activeSession
handleSignOutFails(c) ==
  /\ activeSession[c].id # 0
  /\ statusMsg' = [statusMsg EXCEPT ![c] = "sign_out_failed"]
  /\ UNCHANGED <<now, storeVars, pc, cad, nowIso, activeSession, adminVars, boardVars, adminMode>>

\* The 2h timeout when its update answers with an error: the result is not
\* looked at, the client drops its activeSession all the same
autoExpireFails(c) ==
  /\ activeSession[c].id # 0
  /\ activeSession[c].sign_out = Null
  /\ now >= activeSession[c].sign_in + TWO_HOURS_SEC
  /\ activeSession' = [activeSession EXCEPT ![c] = NoSession]
  /\ statusMsg' = [statusMsg EXCEPT ![c] = "auto"]
  /\ UNCHANGED <<now, storeVars, pc, cad, nowIso, adminVars, boardVars, adminMode>>

\* saveEdits when one of its store calls answers with an error: the updates
\* run one by one in the order of the panel (newest session first; ids are
\* given in the order of creation), those before the failing call stay
\* written, the throw skips the rest, the panel stays open. The failing call
\* is an update of the loop or, after all of them, the upsert of the override.
saveEditsFails ==
  /\ editCadet # 0
  /\ nAdminOps < MaxAdminOps /\ nAdminOps' = nAdminOps + 1
  /\ \E done \in SUBSET DOMAIN editDraft :
       /\ \A i \in done : \A j \in DOMAIN editDraft : j > i => j \in done
       /\ done = DOMAIN editDraft => editOverride # Null
       /\ sessions' = [i \in SessionIds |->
                         IF i \in done
                         THEN [sessions[i] EXCEPT
                                 !.sign_in = localInputToIso(editDraft[i].sign_in),
                                 !.sign_out = IF editDraft[i].sign_out = Null THEN Null
                                              ELSE localInputToIso(editDraft[i].sign_out)]
                         ELSE sessions[i]]
  /\ UNCHANGED <<now, cadets, overrides, clientVars, editCadet, editDraft,
                 editOverride, boardVars>>

\* The store calls of one client failing.
ClientFailure(c) ==
  \/ handleSignInUpsertFails(c)
  \/ handleSignInOpenFails(c)
  \/ handleSignInRecentFails(c)
  \/ handleSignInInsertFails(c)
  \/ handleSignOutFails(c)
  \/ autoExpireFails(c)

\* ------------------------------------------------------------- reload
\* The tab is reloaded: a handler in flight is gone, the state starts afresh,
\* and the effects on mount read activeSession and the admin unlock back
\* from localStorage; the effect on [activeSession] arms the timer anew.
reload(c) ==
  /\ pc' = [pc EXCEPT ![c] = "idle"]
  /\ cad' = [cad EXCEPT ![c] = NoCadet]
  /\ nowIso' = [nowIso EXCEPT ![c] = 0]
  /\ statusMsg' = [statusMsg EXCEPT ![c] = "none"]
  /\ UNCHANGED <<now, storeVars, activeSession, adminMode, adminVars, boardVars>>

\* ------------------------------------------------------ admin key guard
\* The entered key equals NEXT_PUBLIC_ASP_ADMIN_KEY: the page unlocks.
enableAdmin(c) ==
  /\ ~adminMode[c]
  /\ adminMode' = [adminMode EXCEPT ![c] = TRUE]
  /\ UNCHANGED <<now, storeVars, pc, cad, nowIso, activeSession, statusMsg,
                 adminVars, boardVars>>

\* The "Disable admin" button.
disableAdmin(c) ==
  /\ adminMode[c]
  /\ adminMode' = [adminMode EXCEPT ![c] = FALSE]
  /\ statusMsg' = [statusMsg EXCEPT ![c] = "admin_disabled"]
  /\ UNCHANGED <<now, storeVars, pc, cad, nowIso, activeSession, adminVars, boardVars>>

\* One client's steps, for a click with the form holding (nm, kl).
ClientStep(c, names, klasses) ==
  \/ \E nm \in names : \E kl \in klasses : handleSignInStart(c, nm, kl)
  \/ handleSignInUpsert(c)
  \/ handleSignInOpen(c)
  \/ handleSignInRecent(c)
  \/ handleSignInInsert(c)
  \/ handleSignOut(c)
  \/ autoExpire(c)

\* Two tabs and any form input.
Next ==
  \/ Tick
  \/ \E c \in {1, 2} : ClientStep(c, NameInputs, KlassInputs)

Spec == Init /\ [][Next]_vars

\* One tab and the administrator with the edit panel.
NextAdmin ==
  \/ Tick
  \/ ClientStep(1, {<<"a">>}, {"1C"})
  \/ \E p \in 1 .. MaxCadets : removeCadet(p)
  \/ \E p \in 1 .. MaxCadets : openEditForLeaderboardRow(p)
  \/ \E i \in 1 .. MaxSessions : \E v \in AdminInputs : typeSignIn(i, v)
  \/ \E i \in 1 .. MaxSessions : \E v \in AdminInputs \cup {Null} : typeSignOut(i, v)
  \/ \E v \in OverrideInputs \cup {Null} : typeOverride(v)
  \/ saveEdits
  \/ cancelEdits
  \/ pageLoad(0)
  \/ overridesEffect

SpecAdmin == Init /\ [][NextAdmin]_vars

\* One tab and an administrator who removes participants and closes their
\* sessions at the window's end, Monday 21:30.
NextCap ==
  \/ Tick
  \/ ClientStep(1, {<<"a">>}, {"1C"})
  \/ pageLoad(0)
  \/ overridesEffect
  \/ \E p \in 1 .. MaxCadets : removeCadet(p)
  \/ \E p \in 1 .. MaxCadets : openEditForLeaderboardRow(p)
  \/ \E i \in 1 .. MaxSessions : typeSignOut(i, ASP_END_MIN)
  \/ saveEdits

SpecCap == Init /\ [][NextCap]_vars

\* Three tabs of one participant.
NextTabs ==
  \/ Tick
  \/ \E c \in Clients : ClientStep(c, {<<"a">>}, {"1C"})

SpecTabs == Init /\ [][NextTabs]_vars

\* The calendar functions, on any device.
NextClock ==
  \/ \E off \in DeviceOffsets : pageLoad(off)
  \/ overridesEffect

SpecClock == InitClock /\ [][NextClock]_vars

\* The leaderboard over a probed store.
NextBoard ==
  \/ pageLoad(0)
  \/ overridesEffect

SpecBoard == InitBoard /\ [][NextBoard]_vars

\* The administrator removing participants from the leaderboard of a probed
\* store.
NextRemove ==
  \/ pageLoad(0)
  \/ overridesEffect
  \/ \E p \in 1 .. MaxCadets : removeCadet(p)

SpecRemove == InitBoard /\ [][NextRemove]_vars

\* The leaderboard's tabs over a probed store.
SpecCohort == InitCohort /\ [][NextBoard]_vars

\* One tab and the administrator's edit panel over a store whose calls may
\* fail.
NextFail ==
  \/ Tick
  \/ ClientStep(1, {<<"a">>}, {"1C"})
  \/ ClientFailure(1)
  \/ pageLoad(0)
  \/ overridesEffect
  \/ \E p \in 1 .. MaxCadets : openEditForLeaderboardRow(p)
  \/ \E v \in OverrideInputs : typeOverride(v)
  \/ saveEdits
  \/ saveEditsFails

SpecFail == Init /\ [][NextFail]_vars

\* Two tabs of one participant, no administrator, through the end of
\* Monday's window.
NextEvening ==
  \/ TickEvening
  \/ \E c \in {1, 2} : ClientStep(c, {<<"a">>}, {"1C"})

SpecEvening == Init /\ [][NextEvening]_vars

\* Two tabs of one participant and an administrator who removes
\* participants from the leaderboard.
NextVoid ==
  \/ Tick
  \/ \E c \in {1, 2} : ClientStep(c, {<<"a">>}, {"1C"})
  \/ pageLoad(0)
  \/ overridesEffect
  \/ \E p \in 1 .. MaxCadets : removeCadet(p)

SpecVoid == Init /\ [][NextVoid]_vars

\* One tab whose page is unlocked for the administrator, or locked again.
NextKey ==
  \/ Tick
  \/ ClientStep(1, {<<"a">>}, {"1C"})
  \/ enableAdmin(1)
  \/ disableAdmin(1)

SpecKey == Init /\ [][NextKey]_vars

\* One tab that keeps running, with its timer, and an administrator who
\* clears the end of sessions; the clock goes on and a timer that is due
\* runs.
NextLive ==
  \/ TickLate
  \/ ClientStep(1, {<<"a">>}, {"1C"})
  \/ reload(1)
  \/ pageLoad(0)
  \/ overridesEffect
  \/ \E p \in 1 .. MaxCadets : openEditForLeaderboardRow(p)
  \/ \E i \in 1 .. MaxSessions : typeSignOut(i, Null)
  \/ saveEdits

SpecLive ==
  /\ Init /\ [][NextLive]_vars
  /\ WF_vars(TickLate)
  /\ WF_vars(autoExpire(1))

\* ================================================================ claims
\* the participant's sessions that count: not void
NonVoidSessionsOf(p) ==
  {i \in SessionIds : sessions[i].cadet_id = p /\ sessions[i].voided = FALSE}

\* accruedTonight over the participant's non-void sessions
AccruedTonight(p, t) == minutesTonightET(NonVoidSessionsOf(p), t)

\* C1: in every reachable state each participant owns at most one session
\* whose end timestamp is absent.
AtMostOneOpenSession ==
  \A p \in CadetIds : Cardinality(OpenSessionsOf(p)) <= 1

\* C2: the open-session lookup of signIn, for a participant who has an open
\* session, returns an open session of that participant and leaves the stored
\* sessions unchanged.
ResumeReturnsOpenSession ==
  [][\A c \in Clients :
       (handleSignInOpen(c) /\ OpenSessionsOf(cad[c].id) # {})
       => /\ sessions' = sessions
          /\ activeSession'[c].id \in OpenSessionsOf(cad[c].id)
          /\ statusMsg'[c] = "resumed"]_vars

ClosedWindowWritesNothing ==
  [][\A c \in Clients : \A nm \in NameInputs : \A kl \in KlassInputs :
       (handleSignInStart(c, nm, kl) /\ ~isAspOpen(now))
       => /\ storeVars' = storeVars
          /\ pc'[c] = "idle"
          /\ activeSession'[c] = NoSession
          /\ statusMsg'[c] = IF nm = <<>> \/ kl = "none" THEN "validation"
                             ELSE "closed"]_vars

\* C4 witness: a sign-in was refused outside the window.
ClosedErrorReached ==
  \E c \in Clients : statusMsg[c] = "closed" /\ ~isAspOpen(now)

\* C5: with no administrator edit, every closed session has
\* end - start <= 120 minutes.
ClosedWithinTwoHours ==
  \A i \in SessionIds :
    sessions[i].sign_out # Null
    => sessions[i].sign_out - sessions[i].sign_in <= TWO_HOURS_SEC

\* C6: autoExpire sets the session's end to exactly its start + 120 minutes.
AutoExpireEndIsStartPlusTwoHours ==
  [][\A c \in Clients :
       autoExpire(c)
       => LET i == activeSession[c].id IN
          sessions'[i].sign_out = sessions[i].sign_in + TWO_HOURS_SEC]_vars

\* C7: autoExpire writes only to a session that is still open and not void:
\* never after it was closed by sign-out, edit or void, and never a second
\* time.
AutoExpireOnlyWhileOpen ==
  [][\A c \in Clients :
       autoExpire(c)
       => LET i == activeSession[c].id IN
          sessions[i].sign_out = Null /\ sessions[i].voided = FALSE]_vars

\* C8: signOut with an open session sets that session's end to now, leaves
\* its start and void flag and every other session unchanged, and afterwards
\* the participant has no open session.
SignOutClosesTheOpenSession ==
  [][\A c \in Clients :
       (handleSignOut(c) /\ sessions[activeSession[c].id].sign_out = Null)
       => LET i == activeSession[c].id IN
          /\ sessions'[i] = [sessions[i] EXCEPT !.sign_out = now]
          /\ \A j \in SessionIds \ {i} : sessions'[j] = sessions[j]
          /\ \A j \in SessionIds :
               sessions'[j].cadet_id = sessions[i].cadet_id
               => sessions'[j].sign_out # Null]_vars

\* C9: signOut when the participant has no open session leaves every stored
\* session unchanged.
SignOutWithoutOpenSessionWritesNothing ==
  [][\A c \in Clients :
       (handleSignOut(c) /\ OpenSessionsOf(activeSession[c].cadet_id) = {})
       => sessions' = sessions]_vars

\* C10: signIn creates no participant record when the normalized name is
\* empty or the cohort is unset.
NoParticipantWithoutNameOrCohort ==
  \A p \in CadetIds : cadets[p].name # <<>> /\ cadets[p].klass # "none"

NextWindowIsLaterAndOpen ==
  [][\A off \in DeviceOffsets :
       pageLoad(off) => nextWindow' > now /\ isAspOpen(nextWindow')]_vars

\* the whole minutes of the open window of the start's date, 19:30 .. 21:29,
\* that the interval from sin to sout covers
WindowMinutesCovered(sin, sout) ==
  LET day == sin \div 86400
  IN Cardinality({m \in day * 1440 + 1170 .. day * 1440 + 1289 :
                    sin \div 60 <= m /\ m < sout \div 60})

\* C13: accruedTonight equals min(120, the sum, over the sessions that start
\* on the date of now, of the minutes of the open window of that date lying
\* between the session's start and its end, or now when it is open).
AccruedTonightIsWindowOverlap ==
  \A p \in CadetIds :
    LET ids == {i \in NonVoidSessionsOf(p) :
                  sessions[i].sign_in \div 86400 = now \div 86400}
        covered == [i \in ids |->
                     WindowMinutesCovered(sessions[i].sign_in,
                                          IF sessions[i].sign_out = Null THEN now
                                          ELSE sessions[i].sign_out)]
    IN AccruedTonight(p, now) = Min(120, SumOver(ids, covered))

\* the minutes of the interval from s to e that lie inside the open window of
\* the date of s: none on a date that has no window
MinutesInsideWindow(s, e) ==
  LET day == s \div 86400
      ws == day * 86400 + 70200
      we == day * 86400 + 77400
  IN IF (day % 7) \notin {0, 2} \/ e <= ws \/ s >= we THEN 0
     ELSE IF ws <= s /\ e <= we THEN (e - s) \div 60
     ELSE (Min(e, we) - Max(s, ws)) \div 60

ElapsedClampedAndMonotone ==
  [][\A c \in Clients :
       /\ currentElapsedSec(c) \in 0 .. 120 * 60
       /\ currentElapsedSec(c)' \in 0 .. 120 * 60
       /\ (activeSession[c].id # 0 /\ now >= activeSession[c].sign_in + 2 * 3600)
          => currentElapsedSec(c) = 120 * 60
       /\ (activeSession'[c].id # 0 /\ now' >= activeSession'[c].sign_in + 2 * 3600)
          => currentElapsedSec(c)' = 120 * 60
       /\ (activeSession[c].id # 0 /\ activeSession'[c] = activeSession[c])
          => currentElapsedSec(c)' >= currentElapsedSec(c)]_vars

\* C16 witness: a client holds an open session more than two hours after its
\* start (the timer has not run yet) and the counter stands at 7200.
ElapsedAtTwoHours ==
  \E c \in Clients :
    /\ activeSession[c].id # 0
    /\ now > activeSession[c].sign_in + 2 * 3600
    /\ currentElapsedSec(c) = 120 * 60

\* the edit panel shows every loaded session as the store holds it: the
\* administrator asks for no change of a session
DraftShowsStore ==
  \A i \in DOMAIN editDraft :
    /\ editDraft[i].sign_in = fmtLocalInput(sessions[i].sign_in)
    /\ editDraft[i].sign_out = IF sessions[i].sign_out = Null THEN Null
                               ELSE fmtLocalInput(sessions[i].sign_out)

\* C17: saving the panel to set or clear an override, with no session field
\* changed, leaves every stored session's start, end and void flag as they
\* were, and allTimeTotal over the stored sessions is unchanged.
OverrideSaveLeavesSessions ==
  [][(saveEdits /\ DraftShowsStore /\ editOverride # overrides[editCadet])
     => /\ sessions' = sessions
        /\ allTimeTotal(sessions', editCadet, now) = allTimeTotal(sessions, editCadet, now)]_vars

\* C18: once the overrides effect has run, every displayed row shows the
\* participant's Override record as its total when one is stored, and the
\* computed total when none is.
DisplayedTotalFollowsOverride ==
  ~ovPending
  => \A k \in DOMAIN rows("all") :
       LET r == rows("all")[k]
       IN r.total = IF overrides[r.cadetId] # Null THEN overrides[r.cadetId]
                    ELSE r.totalMin

\* the position of the participant's row in a sequence of rows
PositionOf(seq, id) == CHOOSE k \in DOMAIN seq : seq[k].cadetId = id

\* C19: the displayed rows are the leaderboard's rows ordered by their
\* (possibly overridden) total, largest first, and rows of equal total keep
\* the order in which the leaderboard holds them.
RowsSortedDescendingStable ==
  LET shown == rows("all")
  IN /\ Len(shown) = Len(leaderboard)
     /\ {shown[k].cadetId : k \in DOMAIN shown} = RowIds
     /\ \A k \in 1 .. Len(shown) - 1 : shown[k].total >= shown[k + 1].total
     /\ \A a, b \in DOMAIN leaderboard :
          (a < b /\ shown[PositionOf(shown, leaderboard[a].cadetId)].total
                     = shown[PositionOf(shown, leaderboard[b].cadetId)].total)
          => PositionOf(shown, leaderboard[a].cadetId)
               < PositionOf(shown, leaderboard[b].cadetId)

\* C19 witness: two rows whose totals differ, fetched smallest first and
\* shown largest first.
RowsReordered ==
  /\ Len(leaderboard) = 2
  /\ rows("all")[1].cadetId = leaderboard[2].cadetId
  /\ rows("all")[1].total > rows("all")[2].total

\* C20: the reward-day count of every displayed row is floor(total / 240) of
\* its displayed total: 0 for 30 minutes, 2 for 480 minutes.
RewardDaysAreFloorOfTotalBy240 ==
  \A k \in DOMAIN rows("all") :
    LET total == rows("all")[k].total
        days == pmiDays(total)
    IN /\ 240 * days <= total /\ total < 240 * (days + 1)
       /\ total = 30 => days = 0
       /\ total = 480 => days = 2

\* C20 witness: a displayed row of 480 minutes (an override) with 2 reward
\* days, next to one of 30 minutes with none.
RewardDaysTwoAndNone ==
  \E j, k \in DOMAIN rows("all") :
    /\ rows("all")[j].total = 480 /\ pmiDays(rows("all")[j].total) = 2
    /\ rows("all")[k].total = 30 /\ pmiDays(rows("all")[k].total) = 0

\* C21: removing a participant sets the void flag on every session the
\* participant owns, changes no start or end timestamp, and leaves every
\* session of another participant and every Override record as it was.
RemoveVoidsOnlyTheParticipant ==
  [][\A p \in 1 .. MaxCadets :
       removeCadet(p)
       => /\ Len(sessions') = Len(sessions)
          /\ \A i \in SessionIds :
               /\ sessions'[i].cadet_id = sessions[i].cadet_id
               /\ sessions'[i].sign_in = sessions[i].sign_in
               /\ sessions'[i].sign_out = sessions[i].sign_out
               /\ sessions[i].cadet_id = p => sessions'[i].voided = TRUE
               /\ sessions[i].cadet_id # p => sessions'[i] = sessions[i]
          /\ overrides' = overrides]_vars

\* C21 witness: participant 1, holding an override and an open session, has
\* been removed once; the open session is void and still open, a session of
\* participant 2 still counts and the override is still stored.
RemovedOneOfTwo ==
  /\ nAdminOps = 1
  /\ 1 \notin RowIds
  /\ overrides[1] = 480
  /\ \E i \in SessionIds : /\ sessions[i].cadet_id = 1 /\ sessions[i].voided = TRUE
                           /\ sessions[i].sign_in = 73800 /\ sessions[i].sign_out = Null
  /\ \E j \in SessionIds : sessions[j].cadet_id = 2 /\ sessions[j].voided = FALSE

\* C22: a step in which a persistence call of signIn, signOut or the
\* administrator's save fails leaves the stored Participant, Session and
\* Override records as they were before the operation: the failing save has
\* written nothing.
NoPartialWriteOnFailure ==
  [][(\/ saveEditsFails
      \/ \E c \in Clients : \/ handleSignOutFails(c)
                            \/ handleSignInUpsertFails(c)
                            \/ handleSignInInsertFails(c))
     => storeVars' = storeVars]_vars

\* C23: no two Participant records hold the same (normalized name, cohort,
\* group), whatever the sequence of sign-ins and also when first sign-ins
\* from different clients run concurrently.
NoDuplicateParticipants ==
  \A i, j \in CadetIds :
    (/\ normalizeName(cadets[i].name) = normalizeName(cadets[j].name)
     /\ cadets[i].klass = cadets[j].klass
     /\ cadets[i].company = cadets[j].company)
    => i = j

\* C24: on a page with administrator mode enabled, a sign-in with a name
\* and a cohort at an instant outside the open window is not turned down as
\* closed: it goes on to the lookup and the upsert, the resume, the cap and
\* the create.
AdminBypassesClosedWindow ==
  [][\A c \in Clients : \A nm \in NameInputs : \A kl \in KlassInputs :
       (/\ handleSignInStart(c, nm, kl)
        /\ adminMode[c]
        /\ nm # <<>> /\ kl # "none"
        /\ ~isAspOpen(now))
       => (pc'[c] = "upsert" /\ statusMsg'[c] # "closed")]_vars

\* C25: a session that was open during a window is signed out when the
\* window closes: after 21:30 ET of the date it started on, the store holds
\* it with an end.
NoSessionOpenAfterWindowClose ==
  \A i \in SessionIds :
    (/\ sessions[i].sign_out = Null
     /\ weekdayET(sessions[i].sign_in) \in {"mon", "wed"}
     /\ minutesOfDayET(sessions[i].sign_in) < ASP_END_MIN)
    => now <= etDateKey(sessions[i].sign_in) * DaySec + ASP_END_MIN * 60

\* C26: while the owner's tab keeps running, a session that is open in the
\* store is eventually closed by the timer (or by the owner before it). The
\* sessions looked at are those whose two hours end within the evening that
\* the clock covers.
OpenSessionEventuallyExpires ==
  \A i \in 1 .. MaxSessions :
    (/\ i \in SessionIds /\ sessions[i].sign_out = Null
     /\ \E t \in LateInstants : sessions[i].sign_in + TWO_HOURS_SEC <= t)
      ~> (i \in SessionIds /\ sessions[i].sign_out # Null)

\* C27: a sign-in that ends as signed in, without resuming, has added
\* exactly one session to the store: owned by the participant who signs in,
\* started at the instant the handler read from the clock, with no end and
\* not void; every session stored before is as it was.
SignInAddsExactlyOneSession ==
  [][\A c \in Clients :
       (pc[c] = "insert" /\ pc'[c] = "idle" /\ statusMsg'[c] = "signed_in")
       => /\ Len(sessions') = Len(sessions) + 1
          /\ \A i \in SessionIds : sessions'[i] = sessions[i]
          /\ LET s == sessions'[Len(sessions')]
             IN /\ s.cadet_id = cad[c].id
                /\ cadets[s.cadet_id].name = cad[c].name
                /\ cadets[s.cadet_id].klass = cad[c].klass
                /\ s.sign_in = nowIso[c] /\ nowIso[c] <= now
                /\ s.sign_out = Null
                /\ s.voided = FALSE
                /\ activeSession'[c].id = Len(sessions')]_vars

\* C27 witness: a second sign-in of the participant has added session 2,
\* open, next to the closed session 1.
SecondSessionAdded ==
  /\ statusMsg[1] = "signed_in"
  /\ Len(sessions) = 2
  /\ activeSession[1].id = 2
  /\ sessions[2].sign_out = Null /\ sessions[2].voided = FALSE
  /\ sessions[1].sign_out # Null

\* C28: when the read of the open session, or the read of tonight's
\* sessions, fails during a sign-in, the sign-in ends there with an error
\* message: it does not go on towards creating a session. The failing reads
\* looked at are those a successful read would not have let pass: the
\* participant has an open session, or is at the cap.
FailedReadEndsSignIn ==
  [][\A c \in Clients :
       (\/ /\ handleSignInOpenFails(c)
           /\ OpenSessionsOf(cad[c].id) # {}
        \/ /\ handleSignInRecentFails(c)
           /\ minutesTonightET(RecentSessionsOf(cad[c].id, now - RECENT_HOURS * 60 * 60),
                               now) >= TWO_HOURS_MIN)
       => /\ pc'[c] = "idle"
          /\ statusMsg'[c] \in {"cadet_save_failed", "sign_in_failed"}
          /\ sessions' = sessions]_vars

\* C29: no operation removes a session record: every step leaves each stored
\* session id in the store, with its owner; the set of ids only grows.
SessionsNeverRemoved ==
  [][/\ Len(sessions') >= Len(sessions)
     /\ \A i \in SessionIds : sessions'[i].cadet_id = sessions[i].cadet_id]_vars

\* C29 witness: the participant was removed from the leaderboard and has
\* signed in again; the voided session 1 is still stored next to session 2.
VoidedSessionStillStored ==
  /\ Len(sessions) = 2
  /\ sessions[1].voided = TRUE
  /\ sessions[2].voided = FALSE
  /\ sessions[1].cadet_id = sessions[2].cadet_id

\* C30: for every cohort tag, the rows of that cohort's tab are the rows of
\* the full sorted list whose cohort is the tag, in the same order.
CohortViewIsFilterOfFullView ==
  \A tab \in ALL_KLASSES :
    LET InCohort(r) == r.klass = tab
    IN rows(tab) = SelectSeq(rows("all"), InCohort)

\* C30 witness: two participants of cohort 1C, fetched smallest first; the
\* cohort's tab shows both, largest first.
CohortTabReordered ==
  /\ Len(rows("1C")) = 2
  /\ rows("1C")[1].cadetId = leaderboard[2].cadetId
  /\ rows("1C")[1].total > rows("1C")[2].total
  /\ rows("2C") = << >>

\* C31: a sign-out, or a timer, of a client that still holds as active a
\* session the store has already closed leaves the stored end as it is.
StaleCloseKeepsStoredEnd ==
  [][\A c \in Clients :
       ((handleSignOut(c) \/ autoExpire(c))
        /\ sessions[activeSession[c].id].sign_out # Null)
       => sessions'[activeSession[c].id].sign_out
            = sessions[activeSession[c].id].sign_out]_vars

\* C32: with an administrator who edits no session field, a session that
\* the panel loaded as open and that its owner has closed since (by sign-out
\* or by the timer) is still closed, with the same end, after the save.
SaveKeepsOwnersClose ==
  [][\A i \in SessionIds :
       (/\ saveEdits
        /\ i \in DOMAIN editDraft
        /\ editDraft[i].sign_out = Null
        /\ sessions[i].sign_out # Null)
       => sessions'[i].sign_out = sessions[i].sign_out]_vars

\* C33: whenever a client holds an active session (in its state and its
\* cache), the store holds that session with no end.
ActiveSessionIsOpenInStore ==
  \A c \in Clients :
    activeSession[c].id # 0
    => /\ activeSession[c].id \in SessionIds
       /\ sessions[activeSession[c].id].sign_out = Null

\* no two sessions of the participant overlap: of any two, one has ended by
\* the time the other starts
NoOverlappingSessions(p) ==
  \A i, j \in SessionIds :
    (i # j /\ sessions[i].cadet_id = p /\ sessions[j].cadet_id = p)
    => \/ (sessions[i].sign_out # Null /\ sessions[i].sign_out <= sessions[j].sign_in)
       \/ (sessions[j].sign_out # Null /\ sessions[j].sign_out <= sessions[i].sign_in)

UnchangedSaveKeepsTimestamps ==
  [][(saveEdits /\ DraftShowsStore /\ editOverride = overrides[editCadet])
     => \A i \in SessionIds :
          /\ sessions'[i].sign_in = sessions[i].sign_in
          /\ sessions'[i].sign_out = sessions[i].sign_out]_vars

\* C36: the session a successful sign-in hands to the client, created or
\* resumed, is not void.
SignInYieldsNonVoidSession ==
  [][\A c \in Clients :
       (/\ pc[c] \in {"open", "insert"} /\ pc'[c] = "idle"
        /\ statusMsg'[c] \in {"resumed", "signed_in"})
       => /\ activeSession'[c].id \in 1 .. Len(sessions')
          /\ sessions'[activeSession'[c].id].voided = FALSE]_vars
====
